---- MODULE Spec2Model ----
(***************************************************************************)
(* Model of the #[derive(GodotClass)] expansion of godot-macros:           *)
(* lib.rs (derive_native_class, translate) and derive_godot_class.rs       *)
(* (transform and the parse_* / make_* functions it calls).                *)
(*                                                                         *)
(* A declaration is modelled after venial's parse of it: its kind, its name,*)
(* its attributes (path and value), and its fields with their attributes.  *)
(* Token streams are modelled by the items they hold.                      *)
(***************************************************************************)
EXTENDS Integers, Sequences, FiniteSets, TLC

VARIABLES
    decl,       \* the declaration the derive macro is invoked on
    pc,         \* "ready": not yet expanded, "done": expanded
    output,     \* what the macro returned to the compiler for decl
    registry,   \* __GODOT_PLUGIN_REGISTRY, in the order of the plugin_add! calls
    expanded    \* number of declarations expanded so far

vars == <<decl, pc, output, registry, expanded>>

----------------------------------------------------------------------------
(* Bounds of the model *)

MaxAttrs == 2
MaxFields == 2
MaxExpansions == 2

----------------------------------------------------------------------------
(* Syntax values *)

KvNone == [kind |-> "None", text |-> ""]
KvIdent(s) == [kind |-> "Ident", text |-> s]
KvLit(s) == [kind |-> "Lit", text |-> s]

Kv(k, v) == [key |-> k, val |-> v]

EmptyValue == [shape |-> "Empty", tokens |-> <<>>]
EqualsValue == [shape |-> "Equals", tokens |-> <<>>]
GroupValue(tokens) == [shape |-> "Group", tokens |-> tokens]

Attr(path, value) == [path |-> path, value |-> value]

CallSite == [at |-> "call_site", i |-> 0, j |-> 0]
AttrSpan(i) == [at |-> "attribute", i |-> i, j |-> 0]
AttrValueSpan == [at |-> "attribute_value", i |-> 0, j |-> 0]
FieldsSpan == [at |-> "fields", i |-> 0, j |-> 0]
FieldAttrSpan(i, j) == [at |-> "field_attribute", i |-> i, j |-> j]
NoSpan == [at |-> "none", i |-> 0, j |-> 0]

Msg(text, names) == [text |-> text, names |-> names]

Error(msg, span) == [msg |-> msg, span |-> span]
NoError == Error(Msg("", {}), NoSpan)

Ok(v) == [ok |-> TRUE, val |-> v, err |-> NoError]
Err(e) == [ok |-> FALSE, val |-> <<>>, err |-> e]

----------------------------------------------------------------------------
(* util.rs *)

bail(msg, span) == Err(Error(msg, span))

path_is_single(path, expected) == Len(path) = 1 /\ path[1] = expected

EmptyMap == [k \in {} |-> KvNone]

KvRemove(map, key) == [k \in DOMAIN map \ {key} |-> map[k]]

LastIndexOf(tokens, key) ==
    CHOOSE i \in DOMAIN tokens :
        /\ tokens[i].key = key
        /\ \A j \in DOMAIN tokens : tokens[j].key = key => j <= i

parse_kv_group(value) ==
    CASE value.shape = "Empty" -> Ok(EmptyMap)
      [] value.shape = "Equals" ->
            bail(Msg("expected a key-value group", {}), AttrValueSpan)
      [] OTHER ->
            Ok([k \in {value.tokens[i].key : i \in DOMAIN value.tokens}
                    |-> value.tokens[LastIndexOf(value.tokens, k)].val])

ensure_kv_empty(map, span) ==
    IF DOMAIN map = {}
    THEN Ok(<<>>)
    ELSE bail(Msg("Attribute contains unknown keys", DOMAIN map), span)

----------------------------------------------------------------------------
(* derive_godot_class.rs: parsing *)

(* The ? operator: the error of r, or what f makes of r's value. *)
and_then(r, f(_)) == IF r.ok THEN f(r.val) ELSE r

NoAttr == [some |-> FALSE, span |-> NoSpan, map |-> EmptyMap]
SomeAttr(span, map) == [some |-> TRUE, span |-> span, map |-> map]

(* parse_class_attr without the check for a second #[class]: the last wins. *)
RECURSIVE parse_class_attr_last_wins(_, _, _)
parse_class_attr_last_wins(attributes, i, godot_attr) ==
    IF i > Len(attributes)
    THEN Ok(godot_attr)
    ELSE IF path_is_single(attributes[i].path, "class")
         THEN and_then(parse_kv_group(attributes[i].value),
                       LAMBDA map :
                           parse_class_attr_last_wins(attributes, i + 1,
                                                      SomeAttr(AttrSpan(i), map)))
         ELSE parse_class_attr_last_wins(attributes, i + 1, godot_attr)

RECURSIVE parse_class_attr_from(_, _, _)
parse_class_attr_from(attributes, i, godot_attr) ==
    IF i > Len(attributes)
    THEN Ok(godot_attr)
    ELSE IF path_is_single(attributes[i].path, "class")
         THEN IF godot_attr.some
              THEN bail(Msg("Only one #[class] attribute per item (struct, fn, ...) allowed", {}),
                        AttrSpan(i))
              ELSE and_then(parse_kv_group(attributes[i].value),
                            LAMBDA map :
                                parse_class_attr_from(attributes, i + 1,
                                                      SomeAttr(AttrSpan(i), map)))
         ELSE parse_class_attr_from(attributes, i + 1, godot_attr)

parse_class_attr(attributes) == parse_class_attr_from(attributes, 1, NoAttr)

(* take_literal with an absent key read as an empty literal. *)
take_literal_or_default(map, key, span) ==
    IF key \in DOMAIN map
    THEN IF map[key].kind = "Lit"
         THEN Ok([text |-> map[key].text, map |-> KvRemove(map, key)])
         ELSE bail(Msg("#[property] attribute with a key that isn't an identifier", {key}),
                   span)
    ELSE Ok([text |-> "", map |-> map])

(* One of the four key blocks of parse_property_attrs: the key's literal
   text and the map without the key, or the block's error. *)
take_literal(map, key, span) ==
    IF key \in DOMAIN map
    THEN IF map[key].kind = "Lit"
         THEN Ok([text |-> map[key].text, map |-> KvRemove(map, key)])
         ELSE bail(Msg("#[property] attribute with a key that isn't an identifier", {key}),
                   span)
    ELSE bail(Msg("#[property] attribute without any", {key}), span)

(* The body of the loop of parse_property_attrs for one #[property]. *)
parse_property_attr(attr, span) ==
    and_then(parse_kv_group(attr.value), LAMBDA map :
    and_then(take_literal(map, "name", span), LAMBDA name :
    and_then(take_literal(name.map, "variant_type", span), LAMBDA variant_type :
    and_then(take_literal(variant_type.map, "getter", span), LAMBDA getter :
    and_then(take_literal(getter.map, "setter", span), LAMBDA setter :
    and_then(ensure_kv_empty(setter.map, span), LAMBDA rest :
        Ok([name |-> name.text,
            getter |-> getter.text,
            setter |-> setter.text,
            variant_type |-> variant_type.text])))))))

RECURSIVE parse_property_attrs_from(_, _, _)
parse_property_attrs_from(attributes, i, property_attributes) ==
    IF i > Len(attributes)
    THEN Ok(property_attributes)
    ELSE IF path_is_single(attributes[i].path, "property")
         THEN and_then(parse_property_attr(attributes[i], AttrSpan(i)),
                       LAMBDA info :
                           parse_property_attrs_from(attributes, i + 1,
                                                     Append(property_attributes, info)))
         ELSE parse_property_attrs_from(attributes, i + 1, property_attributes)

parse_property_attrs(attributes) == parse_property_attrs_from(attributes, 1, <<>>)

(* class_attr_keys without the final ensure_kv_empty. *)
class_attr_keys_unchecked(span, map) ==
    IF "base" \in DOMAIN map /\ map["base"].kind # "Ident"
    THEN bail(Msg("Invalid value for 'base' argument", {}), span)
    ELSE IF "init" \in DOMAIN map /\ map["init"].kind # "None"
         THEN bail(Msg("Argument 'init' must not have a value", {}), span)
         ELSE Ok([base_ty |-> IF "base" \in DOMAIN map
                              THEN map["base"].text
                              ELSE "RefCounted",
                  has_generated_init |-> "init" \in DOMAIN map])

(* The body of `if let Some((span, mut map)) = parse_class_attr(..)?`. *)
class_attr_keys(span, map) ==
    IF "base" \in DOMAIN map /\ map["base"].kind # "Ident"
    THEN bail(Msg("Invalid value for 'base' argument", {}), span)
    ELSE IF "init" \in DOMAIN map /\ map["init"].kind # "None"
         THEN bail(Msg("Argument 'init' must not have a value", {}), span)
         ELSE and_then(ensure_kv_empty(KvRemove(KvRemove(map, "base"), "init"), span),
                       LAMBDA rest :
                           Ok([base_ty |-> IF "base" \in DOMAIN map
                                           THEN map["base"].text
                                           ELSE "RefCounted",
                               has_generated_init |-> "init" \in DOMAIN map]))

(* The #[class] part of parse_struct_attributes: the base type and the
   init flag. *)
parse_class_config(attributes) ==
    and_then(parse_class_attr(attributes), LAMBDA attr :
        IF attr.some
        THEN class_attr_keys(attr.span, attr.map)
        ELSE Ok([base_ty |-> "RefCounted", has_generated_init |-> FALSE]))

parse_struct_attributes(class) ==
    and_then(parse_class_config(class.attributes), LAMBDA cfg :
    and_then(parse_property_attrs(class.attributes), LAMBDA properties :
        Ok([base_ty |-> cfg.base_ty,
            has_generated_init |-> cfg.has_generated_init,
            properties |-> properties])))

NoField == [some |-> FALSE, name |-> ""]
ExportedField(field) == [some |-> TRUE, name |-> field.name]

get_single_path_segment(attr) ==
    IF Len(attr.path) = 1
    THEN [some |-> TRUE, name |-> attr.path[1]]
    ELSE [some |-> FALSE, name |-> ""]

(* The inner loop of parse_fields without the check for an earlier #[base]:
   the last #[base] field replaces it. *)
RECURSIVE parse_field_attrs_overwriting(_, _, _, _, _)
parse_field_attrs_overwriting(field, fi, j, is_base, base_field) ==
    IF j > Len(field.attributes)
    THEN Ok([is_base |-> is_base, base_field |-> base_field])
    ELSE IF /\ get_single_path_segment(field.attributes[j]).some
            /\ get_single_path_segment(field.attributes[j]).name = "base"
         THEN parse_field_attrs_overwriting(field, fi, j + 1, TRUE, ExportedField(field))
         ELSE parse_field_attrs_overwriting(field, fi, j + 1, is_base, base_field)

(* The inner loop of parse_fields, over one field's attributes (the
   exported_fields it also collects are never read). *)
RECURSIVE parse_field_attrs_from(_, _, _, _, _)
parse_field_attrs_from(field, fi, j, is_base, base_field) ==
    IF j > Len(field.attributes)
    THEN Ok([is_base |-> is_base, base_field |-> base_field])
    ELSE IF /\ get_single_path_segment(field.attributes[j]).some
            /\ get_single_path_segment(field.attributes[j]).name = "base"
         THEN IF base_field.some
              THEN bail(Msg("#[base] allowed for at most 1 field, already applied to",
                            {base_field.name}),
                        FieldAttrSpan(fi, j))
              ELSE parse_field_attrs_from(field, fi, j + 1, TRUE, ExportedField(field))
         ELSE parse_field_attrs_from(field, fi, j + 1, is_base, base_field)

RECURSIVE parse_fields_from(_, _, _, _)
parse_fields_from(fields, fi, all_field_names, base_field) ==
    IF fi > Len(fields)
    THEN Ok([all_field_names |-> all_field_names, base_field |-> base_field])
    ELSE and_then(parse_field_attrs_from(fields[fi], fi, 1, FALSE, base_field),
                  LAMBDA r :
                      parse_fields_from(fields, fi + 1,
                                        IF ~r.is_base
                                        THEN Append(all_field_names, fields[fi].name)
                                        ELSE all_field_names,
                                        r.base_field))

parse_fields(class) ==
    CASE class.fields.shape = "Unit" -> parse_fields_from(<<>>, 1, <<>>, NoField)
      [] class.fields.shape = "Tuple" ->
            bail(Msg("#[derive(GodotClass)] not supported for tuple structs", {}),
                 FieldsSpan)
      [] OTHER -> parse_fields_from(class.fields.named, 1, <<>>, NoField)

----------------------------------------------------------------------------
(* derive_godot_class.rs: emission *)

Literal_from_str(text) == [literal |-> text]

(* make_godot_init_impl with the base assignment first. *)
make_godot_init_impl_base_first(class_name, fields) ==
    <<[trait |-> "GodotInit",
       class |-> class_name,
       inits |->
           (IF fields.base_field.some
            THEN <<[field |-> fields.base_field.name, value |-> "base"]>>
            ELSE <<>>)
           \o [i \in 1..Len(fields.all_field_names) |->
                  [field |-> fields.all_field_names[i],
                   value |-> "std::default::Default::default()"]]]>>

make_godot_init_impl(class_name, fields) ==
    LET base_init ==
            IF fields.base_field.some
            THEN <<[field |-> fields.base_field.name, value |-> "base"]>>
            ELSE <<>>
        rest_init ==
            [i \in 1..Len(fields.all_field_names) |->
                [field |-> fields.all_field_names[i],
                 value |-> "std::default::Default::default()"]]
    IN  <<[trait |-> "GodotInit",
           class |-> class_name,
           inits |-> rest_init \o base_init]>>

PropertyCall(class_name, property_info) ==
    [class |-> class_name,
     variant_type |-> "VariantType::Int",
     name |-> Literal_from_str(property_info.name),
     getter |-> Literal_from_str(property_info.getter),
     setter |-> Literal_from_str(property_info.setter)]

(* make_godot_properties_impl emitting nothing for an empty list. *)
make_godot_properties_impl_optional(class_name, properties) ==
    IF properties = <<>>
    THEN <<>>
    ELSE <<[trait |-> "GodotProperties",
            class |-> class_name,
            calls |-> [i \in 1..Len(properties) |->
                          PropertyCall(class_name, properties[i])]]>>

(* make_godot_properties_impl with the getter and the setter exchanged. *)
make_godot_properties_impl_swapped(class_name, properties) ==
    <<[trait |-> "GodotProperties",
       class |-> class_name,
       calls |-> [i \in 1..Len(properties) |->
                     [PropertyCall(class_name, properties[i]) EXCEPT
                         !.getter = Literal_from_str(properties[i].setter),
                         !.setter = Literal_from_str(properties[i].getter)]]]>>

make_godot_properties_impl(class_name, properties) ==
    LET property_info_tokens ==
            [i \in 1..Len(properties) |-> PropertyCall(class_name, properties[i])]
    IN  <<[trait |-> "GodotProperties",
           class |-> class_name,
           calls |-> property_info_tokens]>>

make_deref_impl(class_name, fields) ==
    IF ~fields.base_field.some
    THEN <<>>
    ELSE <<[trait |-> "Deref", class |-> class_name,
            target |-> fields.base_field.name],
           [trait |-> "DerefMut", class |-> class_name,
            target |-> fields.base_field.name]>>

(* ClassPlugin with a constructor reference whatever the init flag. *)
ClassPlugin_always_create(class_name_str, base_ty_str, has_generated_init) ==
    [class_name |-> class_name_str,
     base_class_name |-> base_ty_str,
     generated_create_fn |-> <<[fn |-> "callbacks::create", class |-> class_name_str]>>,
     free_fn |-> [fn |-> "callbacks::free", class |-> class_name_str]]

(* The ClassPlugin handed to plugin_add! *)
ClassPlugin(class_name_str, base_ty_str, has_generated_init) ==
    [class_name |-> class_name_str,
     base_class_name |-> base_ty_str,
     generated_create_fn |->
        IF has_generated_init
        THEN <<[fn |-> "callbacks::create", class |-> class_name_str]>>
        ELSE <<>>,
     free_fn |-> [fn |-> "callbacks::free", class |-> class_name_str]]

(* venial::Error::new(msg) carries no span of the input: it is located at
   the macro's call site. *)
NotAStruct == Err(Error(Msg("Not a valid struct", {}), CallSite))

(* emit with the Deref delegation tied to the init flag. *)
emit_deref_with_init(class_name, struct_cfg, fields) ==
    [godot_class |-> [class |-> class_name, base |-> struct_cfg.base_ty],
     godot_init_impl |->
        IF struct_cfg.has_generated_init
        THEN make_godot_init_impl(class_name, fields)
        ELSE <<>>,
     godot_properties_impl |->
        make_godot_properties_impl(class_name, struct_cfg.properties),
     deref_impl |->
        IF struct_cfg.has_generated_init
        THEN make_deref_impl(class_name, fields)
        ELSE <<>>,
     plugin |-> ClassPlugin(class_name, struct_cfg.base_ty, struct_cfg.has_generated_init),
     inherits |-> [macro |-> <<"inherits_transitive_", struct_cfg.base_ty>>,
                   class |-> class_name]]

(* The quote! of transform, once the attributes and the fields are parsed. *)
emit(class_name, struct_cfg, fields) ==
    [godot_class |-> [class |-> class_name, base |-> struct_cfg.base_ty],
     godot_init_impl |->
        IF struct_cfg.has_generated_init
        THEN make_godot_init_impl(class_name, fields)
        ELSE <<>>,
     godot_properties_impl |->
        make_godot_properties_impl(class_name, struct_cfg.properties),
     deref_impl |-> make_deref_impl(class_name, fields),
     plugin |-> ClassPlugin(class_name, struct_cfg.base_ty, struct_cfg.has_generated_init),
     inherits |-> [macro |-> <<"inherits_transitive_", struct_cfg.base_ty>>,
                   class |-> class_name]]

transform(input) ==
    IF input.kind # "struct" THEN NotAStruct ELSE
    and_then(parse_struct_attributes(input), LAMBDA struct_cfg :
    and_then(parse_fields(input), LAMBDA fields :
        Ok(emit(input.name, struct_cfg, fields))))

----------------------------------------------------------------------------
(* lib.rs *)

NoOutput == [kind |-> "none", tokens |-> <<>>, error |-> NoError]

to_compile_error(error) == [kind |-> "compile_error", tokens |-> <<>>, error |-> error]

TokenStream(tokens) == [kind |-> "tokens", tokens |-> tokens, error |-> NoError]

match_result(result2) ==
    IF result2.ok THEN TokenStream(result2.val) ELSE to_compile_error(result2.err)

translate(input) == match_result(transform(input))

(* The registry after the code emitted for one declaration is linked in:
   the emitted plugin_add! appends its ClassPlugin; a compile_error emits
   no plugin_add!. *)
RegistryAfter(reg, out) ==
    IF out.kind = "tokens" THEN Append(reg, out.tokens.plugin) ELSE reg

----------------------------------------------------------------------------
(* Inputs *)

SeqsUpTo(S, n) == UNION {[1..k -> S] : k \in 0..n}

Path(name) == <<name>>

PropertyKeys == <<"name", "variant_type", "getter", "setter">>

(* #[property(name = "<p>", variant_type = "Int", getter = "get_<p>",
   setter = "set_<p>")] without the keys in omit *)
GetterOf(p) == IF p = "health" THEN "get_health" ELSE "get_mana"
SetterOf(p) == IF p = "health" THEN "set_health" ELSE "set_mana"

PropertyTokens(p, omit) ==
    (IF "name" \in omit THEN <<>> ELSE <<Kv("name", KvLit(p))>>)
    \o (IF "variant_type" \in omit THEN <<>> ELSE <<Kv("variant_type", KvLit("Int"))>>)
    \o (IF "getter" \in omit THEN <<>> ELSE <<Kv("getter", KvLit(GetterOf(p)))>>)
    \o (IF "setter" \in omit THEN <<>> ELSE <<Kv("setter", KvLit(SetterOf(p)))>>)

ClassAttrs ==
    { Attr(Path("class"), GroupValue(<<Kv("init", KvNone)>>)),
      Attr(Path("class"), GroupValue(<<Kv("base", KvIdent("Node2D")), Kv("init", KvNone)>>)),
      Attr(Path("class"), GroupValue(<<Kv("base", KvIdent("Node")),
                                       Kv("base", KvIdent("Node2D"))>>)),
      Attr(Path("class"), GroupValue(<<Kv("base", KvLit("Node2D")), Kv("tool", KvNone)>>)),
      Attr(Path("class"), GroupValue(<<Kv("init", KvNone), Kv("tool", KvNone)>>)),
      Attr(Path("class"), GroupValue(<<Kv("init", KvIdent("yes"))>>)),
      Attr(Path("class"), EmptyValue) }

PropertyAttrs ==
    { Attr(Path("property"), GroupValue(PropertyTokens("health", {}))),
      Attr(Path("property"), GroupValue(PropertyTokens("mana", {}))),
      Attr(Path("property"), GroupValue(PropertyTokens("health", {"name"}))),
      Attr(Path("property"), GroupValue(PropertyTokens("health", {"variant_type"}))),
      Attr(Path("property"), GroupValue(PropertyTokens("health", {"getter"}))),
      Attr(Path("property"), GroupValue(PropertyTokens("health", {"setter"}))),
      Attr(Path("property"),
           GroupValue(<<Kv("name", KvIdent("health"))>>
                      \o PropertyTokens("health", {"name", "setter"}))),
      Attr(Path("property"),
           GroupValue(PropertyTokens("health", {}) \o <<Kv("usage", KvLit("editor"))>>)),
      Attr(Path("property"), EqualsValue) }

OtherAttrs == { Attr(<<"doc">>, EqualsValue), Attr(<<"godot", "class">>, EmptyValue) }

StructAttrs == ClassAttrs \cup PropertyAttrs \cup OtherAttrs

AttrLists == SeqsUpTo(StructAttrs, MaxAttrs)

FieldNames == {"speed", "hp", "body"}

BaseAttr == Attr(Path("base"), EmptyValue)
ExportAttr == Attr(Path("export"), EmptyValue)

FieldAttrLists == { <<>>, <<BaseAttr>>, <<ExportAttr>>, <<ExportAttr, BaseAttr>> }

Field(name, attributes) == [name |-> name, attributes |-> attributes]

Distinct(names) == \A i, j \in DOMAIN names : names[i] = names[j] => i = j

NamedFieldLists ==
    { fs \in SeqsUpTo([name : FieldNames, attributes : FieldAttrLists], MaxFields) :
        Distinct([i \in DOMAIN fs |-> fs[i].name]) }

UnitFields == [shape |-> "Unit", named |-> <<>>]
TupleFields == [shape |-> "Tuple", named |-> <<>>]
NamedFields(fs) == [shape |-> "Named", named |-> fs]

StructFields == {UnitFields, TupleFields} \cup {NamedFields(fs) : fs \in NamedFieldLists}

Struct(name, attributes, fields) ==
    [kind |-> "struct", name |-> name, attributes |-> attributes, fields |-> fields]
Enum(name, attributes) ==
    [kind |-> "enum", name |-> name, attributes |-> attributes, fields |-> UnitFields]

(* A few field lists to go with every attribute list, and a few attribute
   lists to go with every field list. *)
CommonFields ==
    { UnitFields, TupleFields,
      NamedFields(<<Field("body", <<BaseAttr>>), Field("speed", <<ExportAttr>>)>>),
      NamedFields(<<Field("hp", <<BaseAttr>>), Field("body", <<BaseAttr>>)>>) }

CommonAttrLists ==
    { <<>>,
      <<Attr(Path("class"), GroupValue(<<Kv("init", KvNone)>>))>>,
      <<Attr(Path("class"), GroupValue(<<Kv("base", KvIdent("Node2D")), Kv("init", KvNone)>>))>>,
      <<Attr(Path("class"), GroupValue(<<Kv("init", KvNone), Kv("tool", KvNone)>>))>>,
      <<Attr(Path("property"), GroupValue(PropertyTokens("health", {"getter"})))>>,
      <<Attr(Path("property"), GroupValue(PropertyTokens("mana", {})))>> }

Inputs ==
    {Struct("Player", as, fs) : as \in AttrLists, fs \in CommonFields}
    \cup {Struct("Player", as, fs) : as \in CommonAttrLists, fs \in StructFields}
    \cup {Enum("Player", as) : as \in AttrLists}

(* The declarations of a crate: two class names, with declarations that
   expand and declarations that fail. *)
CrateInputs ==
    {Struct(n, as, fs) : n \in {"Player", "Enemy"}, as \in CommonAttrLists, fs \in CommonFields}
    \cup {Enum("Enemy", <<>>)}

----------------------------------------------------------------------------
(* One expansion of one declaration *)

Init ==
    /\ decl \in Inputs
    /\ pc = "ready"
    /\ output = NoOutput
    /\ registry = <<>>
    /\ expanded = 0

derive_native_class ==
    /\ pc = "ready"
    /\ output' = translate(decl)
    /\ registry' = RegistryAfter(registry, output')
    /\ expanded' = expanded + 1
    /\ pc' = "done"
    /\ UNCHANGED decl

Next == derive_native_class

Spec == Init /\ [][Next]_vars

----------------------------------------------------------------------------
(* The expansions of a crate's declarations, one after the other *)

InitCrate ==
    /\ decl \in CrateInputs
    /\ pc = "ready"
    /\ output = NoOutput
    /\ registry = <<>>
    /\ expanded = 0

next_declaration ==
    /\ pc = "done"
    /\ expanded < MaxExpansions
    /\ decl' \in CrateInputs
    /\ pc' = "ready"
    /\ UNCHANGED <<output, registry, expanded>>

NextCrate == derive_native_class \/ next_declaration

SpecCrate == InitCrate /\ [][NextCrate]_vars

----------------------------------------------------------------------------
(* What a declaration says, read off its syntax *)

Min(S) == CHOOSE x \in S : \A y \in S : x <= y

TagIndexes(d, name) == {i \in DOMAIN d.attributes : d.attributes[i].path = <<name>>}
ClassTagIndexes(d) == TagIndexes(d, "class")
PropertyTagIndexes(d) == TagIndexes(d, "property")

(* The indexes of d's tags of one name, in source order *)
TagOrder(d, name) ==
    SelectSeq([i \in DOMAIN d.attributes |-> i],
              LAMBDA i : d.attributes[i].path = <<name>>)

Keys(attr) == {attr.value.tokens[k].key : k \in DOMAIN attr.value.tokens}
ValuesOf(attr, key) ==
    {attr.value.tokens[k].val : k \in {n \in DOMAIN attr.value.tokens :
                                            attr.value.tokens[n].key = key}}

IsGroup(attr) == attr.value.shape = "Group"
IsKeyValueList(attr) == attr.value.shape \in {"Group", "Empty"}

(* The fields carrying #[base] *)
BaseMarked(d) ==
    {i \in DOMAIN d.fields.named :
        \E j \in DOMAIN d.fields.named[i].attributes :
            d.fields.named[i].attributes[j].path = <<"base">>}

(* The names of the fields not carrying #[base], in source order *)
PlainFieldNames(d) ==
    LET plain == SelectSeq(d.fields.named,
                           LAMBDA f : \A j \in DOMAIN f.attributes :
                                          f.attributes[j].path # <<"base">>)
    IN  [i \in DOMAIN plain |-> plain[i].name]

InitFlag(d) == \E i \in ClassTagIndexes(d) : "init" \in Keys(d.attributes[i])

(* The base class a declaration names: the base key's identifier *)
BaseClassOf(d) ==
    IF \E i \in ClassTagIndexes(d) : "base" \in Keys(d.attributes[i])
    THEN LET a == d.attributes[CHOOSE i \in ClassTagIndexes(d) :
                                    "base" \in Keys(d.attributes[i])]
         IN  a.value.tokens[LastIndexOf(a.value.tokens, "base")].val.text
    ELSE "RefCounted"

UnknownClassKeys(attr) == Keys(attr) \ {"base", "init"}

(* base only with an identifier value, init only with no value *)
WellFormedBaseInit(attr) ==
    /\ \A v \in ValuesOf(attr, "base") : v.kind = "Ident"
    /\ \A v \in ValuesOf(attr, "init") : v.kind = "None"

(* A #[property] key is missing, malformed (not a literal) or ok *)
KeyState(attr, key) ==
    IF key \notin Keys(attr) THEN "missing"
    ELSE IF \A v \in ValuesOf(attr, key) : v.kind = "Lit" THEN "ok"
    ELSE "malformed"

DefectiveKeys(attr) == {n \in 1..4 : KeyState(attr, PropertyKeys[n]) # "ok"}
MissingKeys(attr) == {n \in 1..4 : KeyState(attr, PropertyKeys[n]) = "missing"}

(* Exactly one key is missing, or several keys are missing or malformed *)
OneMissingOrSeveral(attr) ==
    \/ Cardinality(MissingKeys(attr)) = 1
    \/ Cardinality(DefectiveKeys(attr)) >= 2

(* All four keys, each once, as literals, and nothing else *)
CompleteProperty(attr) ==
    /\ IsGroup(attr)
    /\ Len(attr.value.tokens) = 4
    /\ Keys(attr) = {PropertyKeys[n] : n \in 1..4}
    /\ DefectiveKeys(attr) = {}

LiteralOf(attr, key) == [literal |-> (CHOOSE v \in ValuesOf(attr, key) : TRUE).text]

(* The diagnostic for the first defective key of a #[property] *)
PropertyDiagnostic(attr) ==
    LET key == PropertyKeys[Min(DefectiveKeys(attr))]
    IN  IF KeyState(attr, key) = "missing"
        THEN Msg("#[property] attribute without any", {key})
        ELSE Msg("#[property] attribute with a key that isn't an identifier", {key})

DuplicateBaseDiagnostic(d) ==
    Msg("#[base] allowed for at most 1 field, already applied to",
        {d.fields.named[Min(BaseMarked(d))].name})

OnlyOneClassDiagnostic ==
    Msg("Only one #[class] attribute per item (struct, fn, ...) allowed", {})

UnknownKeysDiagnostic(attr) ==
    Msg("Attribute contains unknown keys", UnknownClassKeys(attr))

Done == pc = "done"
Failed == pc = "done" /\ output.kind = "compile_error"
Succeeded == pc = "done" /\ output.kind = "tokens"
FailedWith(msg) == Failed /\ output.error.msg = msg

----------------------------------------------------------------------------
(* Claims *)

(* C1, as stated: every struct declaration with more than one field carrying
   #[base] fails with the duplicate-base-field diagnostic naming the field
   designated first. *)
C1_AsStated ==
    (Done /\ decl.kind = "struct" /\ Cardinality(BaseMarked(decl)) > 1)
        => FailedWith(DuplicateBaseDiagnostic(decl))

(* C1, amended: every struct declaration with more than one field carrying
   #[base] fails; when its #[class] and #[property] tags parse without
   error, the diagnostic is the duplicate-base-field diagnostic naming the
   field designated first, located at a field attribute. *)
C1_DuplicateBase ==
    (Done /\ decl.kind = "struct" /\ Cardinality(BaseMarked(decl)) > 1)
        => /\ Failed
           /\ parse_struct_attributes(decl).ok
                => /\ output.error.msg = DuplicateBaseDiagnostic(decl)
                   /\ output.error.span.at = "field_attribute"

C1_Witness ==
    /\ Done /\ decl.kind = "struct"
    /\ Cardinality(BaseMarked(decl)) > 1
    /\ ClassTagIndexes(decl) # {}
    /\ FailedWith(DuplicateBaseDiagnostic(decl))

(* C2, as stated: every declaration with a #[property(...)] missing exactly
   one of the four keys fails with the diagnostic citing that key; with
   several keys missing or malformed, the first in the order name,
   variant_type, getter, setter is the one reported. *)
C2_AsStated ==
    Done => \A i \in PropertyTagIndexes(decl) :
                (IsGroup(decl.attributes[i]) /\ OneMissingOrSeveral(decl.attributes[i]))
                    => FailedWith(PropertyDiagnostic(decl.attributes[i]))

(* C2, amended: for every struct declaration whose #[class] stage succeeds,
   the first #[property] that is not a complete descriptor decides the
   diagnostic: if it is a key-value list with a missing or malformed key,
   transform fails citing the first such key in the order name,
   variant_type, getter, setter (the missing key, when only one is missing),
   at that attribute. *)
C2_MissingKey ==
    (Done /\ decl.kind = "struct" /\ parse_class_config(decl.attributes).ok)
        => \A i \in PropertyTagIndexes(decl) :
               ( /\ \A j \in PropertyTagIndexes(decl) :
                        j < i => CompleteProperty(decl.attributes[j])
                 /\ IsKeyValueList(decl.attributes[i])
                 /\ OneMissingOrSeveral(decl.attributes[i]) )
                    => /\ FailedWith(PropertyDiagnostic(decl.attributes[i]))
                       /\ output.error.span = AttrSpan(i)

C2_Witness ==
    /\ Done /\ decl.kind = "struct"
    /\ ClassTagIndexes(decl) # {}
    /\ \E i \in PropertyTagIndexes(decl) :
           /\ Cardinality(MissingKeys(decl.attributes[i])) = 1
           /\ DefectiveKeys(decl.attributes[i]) = MissingKeys(decl.attributes[i])
           /\ FailedWith(PropertyDiagnostic(decl.attributes[i]))

(* C3: when every #[property] supplies the four keys as literals and nothing
   else, the emitted __register_properties holds one registration call per
   tag, in the tags' source order, each with its tag's own name, getter and
   setter; equal names are neither removed nor rejected. *)
C3_RegistrationOrder ==
    (Succeeded /\ \A i \in PropertyTagIndexes(decl) : CompleteProperty(decl.attributes[i]))
        => /\ Len(output.tokens.godot_properties_impl) = 1
           /\ output.tokens.godot_properties_impl[1].class = decl.name
           /\ Len(output.tokens.godot_properties_impl[1].calls)
                = Len(TagOrder(decl, "property"))
           /\ \A n \in DOMAIN TagOrder(decl, "property") :
                  /\ output.tokens.godot_properties_impl[1].calls[n].name
                        = LiteralOf(decl.attributes[TagOrder(decl, "property")[n]], "name")
                  /\ output.tokens.godot_properties_impl[1].calls[n].getter
                        = LiteralOf(decl.attributes[TagOrder(decl, "property")[n]], "getter")
                  /\ output.tokens.godot_properties_impl[1].calls[n].setter
                        = LiteralOf(decl.attributes[TagOrder(decl, "property")[n]], "setter")

C3_Witness ==
    /\ Succeeded
    /\ Len(TagOrder(decl, "property")) >= 2
    /\ LiteralOf(decl.attributes[TagOrder(decl, "property")[1]], "name")
         = [literal |-> "mana"]
    /\ LiteralOf(decl.attributes[TagOrder(decl, "property")[2]], "name")
         = [literal |-> "health"]
    /\ output.tokens.godot_properties_impl[1].calls[1].getter = [literal |-> "get_mana"]
    /\ output.tokens.godot_properties_impl[1].calls[2].getter = [literal |-> "get_health"]

(* The assignments the constructor is to hold: the fields without #[base]
   in source order, each to its default, then the base field *)
ExpectedInits(d) ==
    [i \in DOMAIN PlainFieldNames(d) |->
        [field |-> PlainFieldNames(d)[i], value |-> "std::default::Default::default()"]]
    \o (IF BaseMarked(d) = {}
        THEN <<>>
        ELSE <<[field |-> d.fields.named[Min(BaseMarked(d))].name, value |-> "base"]>>)

(* C4: with the init flag set, the emitted constructor assigns every field
   without #[base] (the #[export] fields too) to its default in source
   order, and the base field, if there is one, after all of them, wherever
   it stands in the source. *)
C4_InitOrder ==
    (Succeeded /\ InitFlag(decl))
        => /\ Len(output.tokens.godot_init_impl) = 1
           /\ output.tokens.godot_init_impl[1].inits = ExpectedInits(decl)

C4_Witness ==
    /\ Succeeded /\ InitFlag(decl)
    /\ Len(decl.fields.named) >= 2
    /\ 1 \in BaseMarked(decl)
    /\ \E i \in DOMAIN decl.fields.named :
           \E j \in DOMAIN decl.fields.named[i].attributes :
               decl.fields.named[i].attributes[j].path = <<"export">>
    /\ output.tokens.godot_init_impl[1].inits[Len(decl.fields.named)].value = "base"

(* C5, as stated: the properties-registration implementation is emitted
   exactly when one or more #[property] descriptors were parsed. *)
C5_AsStated ==
    Succeeded => (output.tokens.godot_properties_impl # <<>>
                    <=> PropertyTagIndexes(decl) # {})

(* C5, amended: every successful expansion emits the properties-registration
   implementation, whatever the init flag, with one registration call per
   #[property]; with no #[property] its body is empty. *)
C5_PropertiesImpl ==
    Succeeded => /\ Len(output.tokens.godot_properties_impl) = 1
                 /\ output.tokens.godot_properties_impl[1].trait = "GodotProperties"
                 /\ Len(output.tokens.godot_properties_impl[1].calls)
                        = Cardinality(PropertyTagIndexes(decl))

C5_Witness ==
    /\ Succeeded
    /\ PropertyTagIndexes(decl) = {}
    /\ ~InitFlag(decl)
    /\ Len(output.tokens.godot_properties_impl) = 1
    /\ output.tokens.godot_properties_impl[1].calls = <<>>

(* The second half of C6: a single #[class(...)] holding only base with an
   identifier and/or init without a value passes the #[class] stage. *)
C6_KnownKeysPass ==
    \A i \in ClassTagIndexes(decl) :
        ( /\ ClassTagIndexes(decl) = {i}
          /\ IsKeyValueList(decl.attributes[i])
          /\ UnknownClassKeys(decl.attributes[i]) = {}
          /\ WellFormedBaseInit(decl.attributes[i]) )
            => parse_class_config(decl.attributes).ok

(* C6, as stated: every declaration whose #[class(...)] holds a key other
   than base and init fails with the unrecognized-key diagnostic; one whose
   #[class(...)] holds only well-formed base and init passes the #[class]
   stage. *)
C6_AsStated ==
    Done => /\ \A i \in ClassTagIndexes(decl) :
                   UnknownClassKeys(decl.attributes[i]) # {}
                       => FailedWith(UnknownKeysDiagnostic(decl.attributes[i]))
            /\ C6_KnownKeysPass

(* C6, amended: every struct declaration with a #[class(...)] holding a key
   other than base and init fails; the diagnostic is the unrecognized-key
   one, naming those keys at that attribute, when that #[class] is the only
   one and its base and init keys are well formed.  The second half stands. *)
C6_UnknownKey ==
    Done => /\ \A i \in ClassTagIndexes(decl) :
                   (decl.kind = "struct" /\ UnknownClassKeys(decl.attributes[i]) # {})
                       => /\ Failed
                          /\ ( /\ ClassTagIndexes(decl) = {i}
                               /\ WellFormedBaseInit(decl.attributes[i]) )
                                => /\ output.error.msg
                                        = UnknownKeysDiagnostic(decl.attributes[i])
                                   /\ output.error.span = AttrSpan(i)
            /\ C6_KnownKeysPass

C6_Witness ==
    /\ Done /\ decl.kind = "struct"
    /\ \E i \in ClassTagIndexes(decl) :
           /\ "init" \in Keys(decl.attributes[i])
           /\ FailedWith(Msg("Attribute contains unknown keys", {"tool"}))

(* C7, as stated: every declaration with two or more #[class] fails with
   'Only one #[class] attribute per item ... allowed'; with none or one
   that diagnostic never appears. *)
C7_AsStated ==
    Done => /\ Cardinality(ClassTagIndexes(decl)) >= 2
                => FailedWith(OnlyOneClassDiagnostic)
            /\ Cardinality(ClassTagIndexes(decl)) <= 1
                => ~FailedWith(OnlyOneClassDiagnostic)

(* C7, amended: every struct declaration with two or more #[class], the
   first of them a key-value list, fails with 'Only one #[class] attribute
   per item ... allowed' at the second #[class]; with none or one that
   diagnostic never appears. *)
C7_OnlyOneClass ==
    Done => /\ ( /\ decl.kind = "struct"
                 /\ Cardinality(ClassTagIndexes(decl)) >= 2
                 /\ IsKeyValueList(decl.attributes[TagOrder(decl, "class")[1]]) )
                => /\ FailedWith(OnlyOneClassDiagnostic)
                   /\ output.error.span = AttrSpan(TagOrder(decl, "class")[2])
            /\ Cardinality(ClassTagIndexes(decl)) <= 1
                => ~FailedWith(OnlyOneClassDiagnostic)

C7_Witness ==
    /\ Done /\ decl.kind = "struct"
    /\ Cardinality(ClassTagIndexes(decl)) >= 2
    /\ FailedWith(OnlyOneClassDiagnostic)

(* C8: a constructor is emitted exactly when the init flag is set and holds
   a base assignment exactly when a field carries #[base]; the Deref and
   DerefMut delegation to the base field is emitted exactly when a field
   carries #[base], with or without init; a struct without a base field
   whose tags parse and whose fields are not a tuple expands. *)
C8_InitAndBase ==
    /\ Succeeded
        => /\ output.tokens.godot_init_impl # <<>> <=> InitFlag(decl)
           /\ output.tokens.godot_init_impl # <<>>
                => ((\E n \in DOMAIN output.tokens.godot_init_impl[1].inits :
                        output.tokens.godot_init_impl[1].inits[n].value = "base")
                    <=> BaseMarked(decl) # {})
           /\ output.tokens.deref_impl # <<>> <=> BaseMarked(decl) # {}
           /\ \A n \in DOMAIN output.tokens.deref_impl :
                  /\ output.tokens.deref_impl[n].trait = <<"Deref", "DerefMut">>[n]
                  /\ output.tokens.deref_impl[n].target
                        = decl.fields.named[Min(BaseMarked(decl))].name
    /\ ( /\ Done /\ decl.kind = "struct"
         /\ BaseMarked(decl) = {}
         /\ decl.fields.shape # "Tuple"
         /\ parse_struct_attributes(decl).ok )
        => Succeeded

C8_Witness ==
    /\ Succeeded
    /\ ~InitFlag(decl)
    /\ BaseMarked(decl) # {}
    /\ output.tokens.godot_init_impl = <<>>
    /\ Len(output.tokens.deref_impl) = 2

(* C9: every failure of transform comes back as a diagnostic carrying the
   span of the offending syntax element, and translate hands it on. *)
C9_SpannedDiagnostics ==
    (Done /\ ~transform(decl).ok)
        => /\ output = to_compile_error(transform(decl).err)
           /\ output.error.span.at
                \in {"attribute", "attribute_value", "fields", "field_attribute"}

(* What the registry is to hold for a declaration *)
ExpectedPlugin(d) ==
    [class_name |-> d.name,
     base_class_name |-> BaseClassOf(d),
     generated_create_fn |->
        IF InitFlag(d) THEN <<[fn |-> "callbacks::create", class |-> d.name]>> ELSE <<>>,
     free_fn |-> [fn |-> "callbacks::free", class |-> d.name]]

(* C10: each expansion that succeeds appends one record to the registry,
   with the declaration's class name, its base class name (RefCounted
   without a base key), a destructor reference, and a constructor reference
   exactly when init is set; an expansion that fails emits the diagnostic
   alone and appends nothing; no step changes an earlier record. *)
C10_Registry ==
    [][ /\ (pc = "ready" /\ output'.kind = "tokens")
            => registry' = Append(registry, ExpectedPlugin(decl))
        /\ (pc = "ready" /\ output'.kind = "compile_error")
            => registry' = registry /\ output'.tokens = <<>>
        /\ pc # "ready" => registry' = registry
        /\ \A n \in DOMAIN registry : n \in DOMAIN registry' /\ registry'[n] = registry[n]
      ]_vars

C10_Witness ==
    /\ pc = "done" /\ expanded = 2
    /\ output.kind = "compile_error"
    /\ Len(registry) = 1
    /\ registry[1].class_name = "Enemy"
    /\ registry[1].base_class_name = "Node2D"
    /\ registry[1].generated_create_fn # <<>>
    /\ decl.name = "Player"

====
